---- MODULE Spec2Model ----
(***************************************************************************)
(* Task manager JSON API (src/routes.py): the user and task handlers, the  *)
(* payload validation and the completed_at transition rule, over a store   *)
(* of users and tasks.                                                     *)
(*                                                                         *)
(* Encoding of JSON payloads.  A payload is a function whose DOMAIN is the *)
(* set of keys present (a Python dict).  A JSON string is a sequence of    *)
(* one-character strings, so that len() and the e-mail pattern are         *)
(* computed on its characters; JSON null is the value None, which is not a *)
(* sequence of characters.  user_id carries a JSON number and is_active a  *)
(* JSON boolean; every other key carries a string or null.  The arguments  *)
(* of a query string are all strings: page, per_page and user_id carry     *)
(* decimal digits, which int() turns into numbers.                         *)
(*                                                                         *)
(* The list handlers (get_users, get_tasks, get_user_tasks, and the page   *)
(* /tasks of src/web_routes.py) answer with the ids of the entities of the *)
(* requested page and the pagination record.                               *)
(***************************************************************************)
EXTENDS Integers, Sequences, FiniteSets, TLC

VARIABLES users, tasks, next_user_id, next_task_id, now, resp, inflight

vars == <<users, tasks, next_user_id, next_task_id, now, resp, inflight>>

(* ------------------------------ bounds -------------------------------- *)

\* ids the users table may hand out
MaxUsers == 2
\* ids the tasks table may hand out
MaxTasks == 1
\* last value of the clock read by datetime.utcnow()
MaxTime == 1
\* requests that may be in flight at once
MaxInflight == 2

(* --------------------------- JSON values ------------------------------ *)

None == <<"None">>

EmptyDict == [k \in {} |-> None]

S_empty == <<>>
S_ab == <<"a", "b">>
S_ali == <<"a", "l", "i">>
S_bob == <<"b", "o", "b">>
S_pw == <<"p", "w", "1">>
S_t == <<"t">>
E_a == <<"a", "@", "x", ".", "i", "o">>
E_c == <<"c", "@", "x", ".", "i", "o">>
E_bad == <<"a", "@", "x">>
S_pending == <<"p", "e", "n", "d", "i", "n", "g">>
S_in_progress == <<"i", "n", "_", "p", "r", "o", "g", "r", "e", "s", "s">>
S_completed == <<"c", "o", "m", "p", "l", "e", "t", "e", "d">>
S_low == <<"l", "o", "w">>
S_medium == <<"m", "e", "d", "i", "u", "m">>
S_high == <<"h", "i", "g", "h">>
S_bogus == <<"b", "o", "g", "u", "s">>
D_iso == <<"2", "0", "2", "6", "-", "0", "1", "-", "0", "1">>
D_bad == <<"x", "x">>

\* Python truthiness of a JSON string or null: "" and None are falsy
Truthy(v) == v # None /\ v # <<>>

\* Python truthiness of the value under key k (a number under user_id)
TruthyAt(data, k) ==
    IF k = "user_id" THEN data[k] # 0
    ELSE IF k = "is_active" THEN data[k]
    ELSE Truthy(data[k])

Has(data, k) == k \in DOMAIN data

(* ---------------------------- validation ------------------------------ *)

Letters ==
    {"a", "b", "c", "d", "e", "f", "g", "h", "i", "j", "k", "l", "m",
     "n", "o", "p", "q", "r", "s", "t", "u", "v", "w", "x", "y", "z"}
Digits == {"0", "1", "2", "3", "4", "5", "6", "7", "8", "9"}
LocalChars == Letters \cup Digits \cup {".", "_", "%", "+", "-"}
DomainChars == Letters \cup Digits \cup {".", "-"}

\* ^[a-zA-Z0-9._%+-]+@[a-zA-Z0-9.-]+\.[a-zA-Z]{2,}$ : some '@' at i and
\* some '.' at j split the string into local part, domain and tld
validate_email(email) ==
    \E i \in 1..Len(email) : \E j \in 1..Len(email) :
        /\ 1 < i /\ i + 1 < j /\ j + 2 <= Len(email)
        /\ email[i] = "@" /\ email[j] = "."
        /\ \A k \in 1..(i - 1) : email[k] \in LocalChars
        /\ \A k \in (i + 1)..(j - 1) : email[k] \in DomainChars
        /\ \A k \in (j + 1)..Len(email) : email[k] \in Letters

\* the loop over required_fields, one error per missing or falsy field
RECURSIVE required_errors(_, _)
required_errors(data, required_fields) ==
    IF required_fields = <<>> THEN <<>>
    ELSE LET field == Head(required_fields)
             rest == required_errors(data, Tail(required_fields))
         IN IF ~Has(data, field) \/ ~TruthyAt(data, field)
            THEN <<(<<field, "is required">>)>> \o rest
            ELSE rest

validate_user_data(data, required_fields) ==
    required_errors(data, required_fields)
    \o (IF Has(data, "email") /\ Truthy(data["email"]) /\ ~validate_email(data["email"])
        THEN <<(<<"Invalid email format">>)>> ELSE <<>>)
    \o (IF Has(data, "username") /\ Truthy(data["username"]) /\ Len(data["username"]) < 3
        THEN <<(<<"Username must be at least 3 characters">>)>> ELSE <<>>)

(* ------------------------------ store --------------------------------- *)

\* a handler's outcome: the response and the store after the request
Result(code, error, details, us, ts) ==
    [code |-> code, error |-> error, details |-> details, users |-> us, tasks |-> ts]

\* the users table's constraints: username and email NOT NULL and UNIQUE
users_integrity_error(us) ==
    \/ \E u \in DOMAIN us : us[u].username = None \/ us[u].email = None
    \/ \E u \in DOMAIN us : \E v \in DOMAIN us :
          u # v /\ (us[u].username = us[v].username \/ us[u].email = us[v].email)

\* User.set_password: a one-way hash of the plaintext
generate_password_hash(password) == <<"h">> \o password

\* User(username=..., email=...): is_active defaults to true
User(username, email) ==
    [username |-> username, email |-> email, password_hash |-> None, is_active |-> TRUE]

\* rows of the tasks table left after a user row is deleted (cascade)
cascade_delete(ts, user_id) ==
    [t \in {x \in DOMAIN ts : ts[x].user_id # user_id} |-> ts[t]]

(* --------------------------- user handlers ---------------------------- *)

\* create_user_lookup without the lookup by email
create_user_lookup_no_email(data) ==
    IF data = EmptyDict
    THEN Result(400, "No data provided", <<>>, users, tasks)
    ELSE LET errors == validate_user_data(data, <<"username", "email", "password">>) IN
    IF errors # <<>>
    THEN Result(400, "Validation failed", errors, users, tasks)
    ELSE IF \E u \in DOMAIN users : users[u].username = data["username"]
    THEN Result(409, "Username already exists", <<>>, users, tasks)
    ELSE Result(0, "", <<>>, users, tasks)

\* create_user up to its uniqueness lookups; code 0: go on to the commit
create_user_lookup(data) ==
    IF data = EmptyDict
    THEN Result(400, "No data provided", <<>>, users, tasks)
    ELSE LET errors == validate_user_data(data, <<"username", "email", "password">>) IN
    IF errors # <<>>
    THEN Result(400, "Validation failed", errors, users, tasks)
    ELSE IF \E u \in DOMAIN users : users[u].username = data["username"]
    THEN Result(409, "Username already exists", <<>>, users, tasks)
    ELSE IF \E u \in DOMAIN users : users[u].email = data["email"]
    THEN Result(409, "Email already exists", <<>>, users, tasks)
    ELSE Result(0, "", <<>>, users, tasks)

\* create_user from the construction of the row to the commit; an
\* IntegrityError of the commit is caught by `except Exception`
create_user_commit(data) ==
    LET user == [User(data["username"], data["email"]) EXCEPT
                    !.password_hash = generate_password_hash(data["password"])]
        added == users @@ (next_user_id :> user)
    IN IF users_integrity_error(added)
       THEN Result(500, "Failed to create user", <<>>, users, tasks)
       ELSE Result(201, "", <<>>, added, tasks)

create_user(data) ==
    LET looked == create_user_lookup(data) IN
    IF looked.code # 0 THEN looked ELSE create_user_commit(data)

\* the session's copy of the row after update_user's assignments
update_user_assign(user, data) ==
    LET u1 == IF Has(data, "username") /\ data["username"] # user.username
              THEN [user EXCEPT !.username = data["username"]] ELSE user
        u2 == IF Has(data, "email") /\ data["email"] # u1.email
              THEN [u1 EXCEPT !.email = data["email"]] ELSE u1
        u3 == IF Has(data, "password") /\ Truthy(data["password"])
              THEN [u2 EXCEPT !.password_hash = generate_password_hash(data["password"])]
              ELSE u2
    IN IF Has(data, "is_active") THEN [u3 EXCEPT !.is_active = data["is_active"]] ELSE u3

\* update_user_lookup looking the new values up without comparing them with
\* the row's own
update_user_lookup_no_self(user_id, data) ==
    IF user_id \notin DOMAIN users
    THEN Result(500, "Failed to update user", <<>>, users, tasks)
    ELSE IF data = EmptyDict
    THEN Result(400, "No data provided", <<>>, users, tasks)
    ELSE LET errors == validate_user_data(data, <<>>) IN
    IF errors # <<>>
    THEN Result(400, "Validation failed", errors, users, tasks)
    ELSE IF /\ Has(data, "username")
            /\ \E u \in DOMAIN users : users[u].username = data["username"]
    THEN Result(409, "Username already exists", <<>>, users, tasks)
    ELSE IF /\ Has(data, "email")
            /\ \E u \in DOMAIN users : users[u].email = data["email"]
    THEN Result(409, "Email already exists", <<>>, users, tasks)
    ELSE Result(0, "", <<>>, users, tasks)

\* update_user_lookup whose return on an email collision leaves the username
\* it has assigned in the store
update_user_lookup_keeps_username(user_id, data) ==
    IF user_id \notin DOMAIN users
    THEN Result(500, "Failed to update user", <<>>, users, tasks)
    ELSE IF data = EmptyDict
    THEN Result(400, "No data provided", <<>>, users, tasks)
    ELSE LET errors == validate_user_data(data, <<>>) IN
    IF errors # <<>>
    THEN Result(400, "Validation failed", errors, users, tasks)
    ELSE LET user == users[user_id] IN
    IF /\ Has(data, "username") /\ data["username"] # user.username
       /\ \E u \in DOMAIN users : users[u].username = data["username"]
    THEN Result(409, "Username already exists", <<>>, users, tasks)
    ELSE IF /\ Has(data, "email") /\ data["email"] # user.email
            /\ \E u \in DOMAIN users : users[u].email = data["email"]
    THEN Result(409, "Email already exists", <<>>,
                IF Has(data, "username")
                THEN [users EXCEPT ![user_id].username = data["username"]] ELSE users,
                tasks)
    ELSE Result(0, "", <<>>, users, tasks)

\* update_user up to its uniqueness lookups; code 0: go on to the commit.
\* get_or_404 raises NotFound inside the try block, and `except Exception`
\* answers it with 500.  A return before the commit leaves the session's
\* assignments uncommitted: the store is as it was.
update_user_lookup(user_id, data) ==
    IF user_id \notin DOMAIN users
    THEN Result(500, "Failed to update user", <<>>, users, tasks)
    ELSE IF data = EmptyDict
    THEN Result(400, "No data provided", <<>>, users, tasks)
    ELSE LET errors == validate_user_data(data, <<>>) IN
    IF errors # <<>>
    THEN Result(400, "Validation failed", errors, users, tasks)
    ELSE LET user == users[user_id] IN
    IF /\ Has(data, "username") /\ data["username"] # user.username
       /\ \E u \in DOMAIN users : users[u].username = data["username"]
    THEN Result(409, "Username already exists", <<>>, users, tasks)
    ELSE IF /\ Has(data, "email") /\ data["email"] # user.email
            /\ \E u \in DOMAIN users : users[u].email = data["email"]
    THEN Result(409, "Email already exists", <<>>, users, tasks)
    ELSE Result(0, "", <<>>, users, tasks)

\* update_user's commit of the session's row
update_user_commit(user_id, user) ==
    LET updated == [users EXCEPT ![user_id] = user] IN
    IF users_integrity_error(updated)
    THEN Result(500, "Failed to update user", <<>>, users, tasks)
    ELSE Result(200, "", <<>>, updated, tasks)

\* the row an in-flight update_user writes at its commit: the UPDATE sets the
\* columns its session changed on the row it had loaded
update_user_flush(row, loaded, session) ==
    [c \in DOMAIN row |-> IF session[c] # loaded[c] THEN session[c] ELSE row[c]]

update_user(user_id, data) ==
    LET looked == update_user_lookup(user_id, data) IN
    IF looked.code # 0 THEN looked
    ELSE update_user_commit(user_id, update_user_assign(users[user_id], data))

\* delete_user removing the users row alone
delete_user_keeps_tasks(user_id) ==
    IF user_id \notin DOMAIN users
    THEN Result(500, "Failed to delete user", <<>>, users, tasks)
    ELSE Result(200, "", <<>>,
                [u \in DOMAIN users \ {user_id} |-> users[u]], tasks)

delete_user(user_id) ==
    IF user_id \notin DOMAIN users
    THEN Result(500, "Failed to delete user", <<>>, users, tasks)
    ELSE Result(200, "", <<>>,
                [u \in DOMAIN users \ {user_id} |-> users[u]],
                cascade_delete(tasks, user_id))

(* --------------------------- task handlers ---------------------------- *)

\* the values of the enumerations, in declaration order
valid_statuses == <<"pending", "in_progress", "completed">>
valid_priorities == <<"low", "medium", "high">>

\* TaskStatus(value): the member whose value is the string, or ValueError
TaskStatus(value) ==
    IF value = S_pending THEN "PENDING"
    ELSE IF value = S_in_progress THEN "IN_PROGRESS"
    ELSE IF value = S_completed THEN "COMPLETED"
    ELSE "ValueError"

\* TaskPriority(value): the member whose value is the string, or ValueError
TaskPriority(value) ==
    IF value = S_low THEN "LOW"
    ELSE IF value = S_medium THEN "MEDIUM"
    ELSE IF value = S_high THEN "HIGH"
    ELSE "ValueError"

validate_task_data(data, required_fields) ==
    required_errors(data, required_fields)
    \o (IF Has(data, "title") /\ Truthy(data["title"]) /\ Len(data["title"]) < 1
        THEN <<(<<"Title cannot be empty">>)>> ELSE <<>>)
    \o (IF /\ Has(data, "status") /\ Truthy(data["status"])
           /\ TaskStatus(data["status"]) = "ValueError"
        THEN <<(<<"Status must be one of:">> \o valid_statuses)>> ELSE <<>>)
    \o (IF /\ Has(data, "priority") /\ Truthy(data["priority"])
           /\ TaskPriority(data["priority"]) = "ValueError"
        THEN <<(<<"Priority must be one of:">> \o valid_priorities)>> ELSE <<>>)

\* str.replace('Z', '+00:00')
RECURSIVE replace_Z(_)
replace_Z(s) ==
    IF s = <<>> THEN <<>>
    ELSE (IF Head(s) = "Z" THEN <<"+", "0", "0", ":", "0", "0">> ELSE <<Head(s)>>)
         \o replace_Z(Tail(s))

\* datetime.fromisoformat on a calendar date YYYY-MM-DD: the set holding the
\* date, or the empty set for ValueError
fromisoformat(s) ==
    IF /\ Len(s) = 10
       /\ s[5] = "-" /\ s[8] = "-"
       /\ \A k \in {1, 2, 3, 4, 6, 7, 9, 10} : s[k] \in Digits
    THEN {s} ELSE {}

\* the tasks table's constraints: title NOT NULL, user_id a row of users
tasks_integrity_error(ts, us) ==
    \E t \in DOMAIN ts : ts[t].title = None \/ ts[t].user_id \notin DOMAIN us

\* Task(title=..., description=..., user_id=...): status defaults to pending
\* and priority to medium; due_date and completed_at are null (the empty set);
\* created_at is null until the INSERT stamps it
Task(title, description, user_id) ==
    [title |-> title, description |-> description, user_id |-> user_id,
     status |-> "PENDING", priority |-> "MEDIUM", due_date |-> {}, completed_at |-> {},
     created_at |-> {}]

\* the INSERT of a task: created_at defaults to the time of the statement
insert_task(task, utcnow) == [task EXCEPT !.created_at = {utcnow}]

\* a handler's run over the session's row: exc names the exception or early
\* return that ended it, "" if none did
Step(exc, task) == [exc |-> exc, task |-> task]

\* create_task up to the owner's lookup (lines 236-246): code 0 when the
\* handler goes on to build the task
create_task_lookup(data) ==
    IF data = EmptyDict
    THEN Result(400, "No data provided", <<>>, users, tasks)
    ELSE LET errors == validate_task_data(data, <<"title", "user_id">>) IN
    IF errors # <<>>
    THEN Result(400, "Validation failed", errors, users, tasks)
    ELSE IF data["user_id"] \notin DOMAIN users
    THEN Result(404, "User not found", <<>>, users, tasks)
    ELSE Result(0, "", <<>>, users, tasks)

\* create_task from the Task(...) call to the commit (lines 248-275), over the
\* store as it is when the handler commits
create_task_commit(data) ==
    LET t0 == Task(data["title"],
                   IF Has(data, "description") THEN data["description"] ELSE <<>>,
                   data["user_id"])
        s1 == IF ~Has(data, "status") THEN Step("", t0)
              ELSE IF TaskStatus(data["status"]) = "ValueError"
              THEN Step("ValueError", t0)
              ELSE Step("", [t0 EXCEPT !.status = TaskStatus(data["status"])])
        s2 == IF s1.exc # "" \/ ~Has(data, "priority") THEN s1
              ELSE IF TaskPriority(data["priority"]) = "ValueError"
              THEN Step("ValueError", s1.task)
              ELSE Step("", [s1.task EXCEPT !.priority = TaskPriority(data["priority"])])
        s3 == IF s2.exc # "" \/ ~Has(data, "due_date") \/ ~Truthy(data["due_date"])
              THEN s2
              ELSE IF fromisoformat(replace_Z(data["due_date"])) = {}
              THEN Step("due_date", s2.task)
              ELSE Step("", [s2.task EXCEPT
                                !.due_date = fromisoformat(replace_Z(data["due_date"]))])
        added == tasks @@ (next_task_id :> insert_task(s3.task, now))
    IN IF s3.exc = "due_date"
       THEN Result(400, "Invalid due_date format. Use ISO format.", <<>>, users, tasks)
       ELSE IF s3.exc # "" \/ tasks_integrity_error(added, users)
       THEN Result(500, "Failed to create task", <<>>, users, tasks)
       ELSE Result(201, "", <<>>, users, added)

create_task(data) ==
    LET r == create_task_lookup(data) IN
    IF r.code # 0 THEN r ELSE create_task_commit(data)

\* completed_at_after stamping every update whose new status is completed
completed_at_after_restamp(old_status, new_status, completed_at, utcnow) ==
    IF new_status = "COMPLETED" THEN {utcnow} ELSE {}

\* the transition rule of update_task: completed_at after the status went
\* from old_status to new_status at time utcnow
completed_at_after(old_status, new_status, completed_at, utcnow) ==
    IF old_status # "COMPLETED" /\ new_status = "COMPLETED" THEN {utcnow}
    ELSE IF old_status = "COMPLETED" /\ new_status # "COMPLETED" THEN {}
    ELSE completed_at

\* update_task's assignments to the session's row, in the handler's order
update_task_assign(task, data) ==
    LET t1 == IF Has(data, "title") THEN [task EXCEPT !.title = data["title"]] ELSE task
        t2 == IF Has(data, "description")
              THEN [t1 EXCEPT !.description = data["description"]] ELSE t1
        s3 == IF ~Has(data, "status") THEN Step("", t2)
              ELSE IF TaskStatus(data["status"]) = "ValueError"
              THEN Step("ValueError", t2)
              ELSE Step("", [t2 EXCEPT
                        !.status = TaskStatus(data["status"]),
                        !.completed_at = completed_at_after(t2.status,
                                            TaskStatus(data["status"]), t2.completed_at, now)])
        s4 == IF s3.exc # "" \/ ~Has(data, "priority") THEN s3
              ELSE IF TaskPriority(data["priority"]) = "ValueError"
              THEN Step("ValueError", s3.task)
              ELSE Step("", [s3.task EXCEPT !.priority = TaskPriority(data["priority"])])
    IN IF s4.exc # "" \/ ~Has(data, "due_date") THEN s4
       ELSE IF ~Truthy(data["due_date"]) THEN Step("", [s4.task EXCEPT !.due_date = {}])
       ELSE IF fromisoformat(replace_Z(data["due_date"])) = {}
       THEN Step("due_date", s4.task)
       ELSE Step("", [s4.task EXCEPT
                         !.due_date = fromisoformat(replace_Z(data["due_date"]))])

\* update_task up to its commit (lines 280-320), over the row it loads: code 0
\* when the handler goes on to commit.  get_or_404 raises NotFound inside the
\* try block, and `except Exception` answers it with 500.  A return before
\* the commit leaves the session's assignments uncommitted, and the except
\* block rolls them back.
update_task_begin(task_id, data) ==
    IF task_id \notin DOMAIN tasks
    THEN Result(500, "Failed to update task", <<>>, users, tasks)
    ELSE IF data = EmptyDict
    THEN Result(400, "No data provided", <<>>, users, tasks)
    ELSE LET errors == validate_task_data(data, <<>>) IN
    IF errors # <<>>
    THEN Result(400, "Validation failed", errors, users, tasks)
    ELSE LET s == update_task_assign(tasks[task_id], data) IN
         IF s.exc = "due_date"
         THEN Result(400, "Invalid due_date format. Use ISO format.", <<>>, users, tasks)
         ELSE IF s.exc # ""
         THEN Result(500, "Failed to update task", <<>>, users, tasks)
         ELSE Result(0, "", <<>>, users, tasks)

\* db.session.commit() of update_task (lines 320-326), writing the row task
update_task_commit(task_id, task) ==
    LET updated == [tasks EXCEPT ![task_id] = task] IN
    IF tasks_integrity_error(updated, users)
    THEN Result(500, "Failed to update task", <<>>, users, tasks)
    ELSE Result(200, "", <<>>, users, updated)

\* the row an in-flight update_task writes at its commit: the UPDATE sets the
\* columns its session changed on the row it had loaded
update_task_flush(row, loaded, session) ==
    [c \in DOMAIN row |-> IF session[c] # loaded[c] THEN session[c] ELSE row[c]]

update_task(task_id, data) ==
    LET r == update_task_begin(task_id, data) IN
    IF r.code # 0 THEN r
    ELSE update_task_commit(task_id, update_task_assign(tasks[task_id], data).task)

delete_task(task_id) ==
    IF task_id \notin DOMAIN tasks
    THEN Result(500, "Failed to delete task", <<>>, users, tasks)
    ELSE Result(200, "", <<>>, users, [t \in DOMAIN tasks \ {task_id} |-> tasks[t]])

(* ------------------------------ listing ------------------------------- *)

\* int(s): the number a decimal string denotes (the empty set on ValueError)
DigitSeq == <<"0", "1", "2", "3", "4", "5", "6", "7", "8", "9">>
DigitValue(c) == (CHOOSE n \in 1..Len(DigitSeq) : DigitSeq[n] = c) - 1

RECURSIVE digits_value(_)
digits_value(s) ==
    IF s = <<>> THEN 0
    ELSE 10 * digits_value(SubSeq(s, 1, Len(s) - 1)) + DigitValue(s[Len(s)])

IsDigits(s) == s # <<>> /\ \A n \in 1..Len(s) : s[n] \in Digits

int(s) ==
    IF IsDigits(s) THEN {digits_value(s)}
    ELSE IF s # <<>> /\ s[1] = "-" /\ IsDigits(Tail(s)) THEN {0 - digits_value(Tail(s))}
    ELSE {}

\* request.args.get(k, default, type=int): the default when the key is
\* absent or its value is not a number
args_get_int(args, k, default) ==
    IF Has(args, k) /\ int(args[k]) # {} THEN CHOOSE n \in int(args[k]) : TRUE
    ELSE default

\* request.args.get('user_id', type=int), None being the empty set
args_get_user_id(args) == IF Has(args, "user_id") THEN int(args["user_id"]) ELSE {}

\* per_page taken as requested, without the upper limit
per_page_unclamped(args) == args_get_int(args, "per_page", 10)

\* per_page = min(request.args.get('per_page', 10, type=int), 100)
per_page_of(args) ==
    LET requested == args_get_int(args, "per_page", 10) IN
    IF requested < 100 THEN requested ELSE 100

page_of(args) == args_get_int(args, "page", 1)

\* the two behaviours of paginate(error_out=False) for per_page = 0 among the
\* releases of the library: LIMIT 0, or the library's default page size
PaginateReleases == {"limit", "default"}

\* the releases that differ on the request (those with per_page = 0)
Releases(args) == IF per_page_of(args) = 0 THEN PaginateReleases ELSE {"limit"}

Min(a, b) == IF a < b THEN a ELSE b
Ceil(a, b) == (a + b - 1) \div b

\* query.paginate(page=page, per_page=per_page, error_out=False) over the rows
\* the query returns: a page below 1 is page 1, a per_page below 0 (below 1,
\* by release) is the default page size
paginate(rows, page, per_page, release) ==
    LET p == IF page < 1 THEN 1 ELSE page
        n == IF per_page < 0 \/ (per_page = 0 /\ release = "default") THEN 20
             ELSE per_page
        total == Len(rows)
    IN [items |-> SubSeq(rows, (p - 1) * n + 1, Min(p * n, total)),
        total |-> total,
        pages |-> IF n = 0 \/ total = 0 THEN 0 ELSE Ceil(total, n)]

\* the body of a list answer: the page's entities (by id) and the pagination
\* record, which repeats the handler's own page and per_page
ListBody(p, page, per_page) ==
    [items |-> p.items, page |-> page, per_page |-> per_page,
     total |-> p.total, pages |-> p.pages]

NoBody == [items |-> <<>>, page |-> 0, per_page |-> 0, total |-> 0, pages |-> 0]

ListResult(code, error, details, body) ==
    [code |-> code, error |-> error, details |-> details,
     users |-> users, tasks |-> tasks, body |-> body]

\* the orders in which the store may return all users (the query has no
\* ORDER BY), and all tasks under ORDER BY created_at DESC
RECURSIVE Orders(_)
Orders(S) ==
    IF S = {} THEN {<<>>}
    ELSE UNION {{<<x>> \o rows : rows \in Orders(S \ {x})} : x \in S}

UserRows == Orders(DOMAIN users)

TaskRows ==
    {rows \in Orders(DOMAIN tasks) :
        \A m, n \in 1..Len(rows) :
            m < n => \A a \in tasks[rows[m]].created_at :
                     \A b \in tasks[rows[n]].created_at : a >= b}

filter_by_user_id(rows, user_id) == SelectSeq(rows, LAMBDA t : tasks[t].user_id = user_id)
filter_by_status(rows, status) == SelectSeq(rows, LAMBDA t : tasks[t].status = status)
filter_by_priority(rows, priority) == SelectSeq(rows, LAMBDA t : tasks[t].priority = priority)

\* a query under construction; error names the early return that ended it
Query(error, rows) == [error |-> error, rows |-> rows]

\* the status and priority filters of get_tasks and get_user_tasks
api_filters(args, rows) ==
    LET q1 == IF ~(Has(args, "status") /\ Truthy(args["status"])) THEN Query("", rows)
              ELSE IF TaskStatus(args["status"]) = "ValueError"
              THEN Query("Invalid status", rows)
              ELSE Query("", filter_by_status(rows, TaskStatus(args["status"])))
    IN IF q1.error # "" \/ ~(Has(args, "priority") /\ Truthy(args["priority"])) THEN q1
       ELSE IF TaskPriority(args["priority"]) = "ValueError"
       THEN Query("Invalid priority", q1.rows)
       ELSE Query("", filter_by_priority(q1.rows, TaskPriority(args["priority"])))

\* the query get_tasks builds (lines 183-204)
get_tasks_query(args, rows) ==
    LET user_id == args_get_user_id(args) IN
    api_filters(args, IF user_id # {} /\ user_id # {0}
                      THEN filter_by_user_id(rows, CHOOSE u \in user_id : TRUE)
                      ELSE rows)

get_users(args, rows, release) ==
    ListResult(200, "", <<>>,
               ListBody(paginate(rows, page_of(args), per_page_of(args), release),
                        page_of(args), per_page_of(args)))

get_tasks(args, rows, release) ==
    LET q == get_tasks_query(args, rows) IN
    IF q.error # "" THEN ListResult(400, q.error, <<>>, NoBody)
    ELSE ListResult(200, "", <<>>,
                    ListBody(paginate(q.rows, page_of(args), per_page_of(args), release),
                             page_of(args), per_page_of(args)))

get_user_tasks(user_id, args, rows, release) ==
    IF user_id \notin DOMAIN users
    THEN ListResult(500, "Failed to fetch user tasks", <<>>, NoBody)
    ELSE LET q == api_filters(args, filter_by_user_id(rows, user_id)) IN
    IF q.error # "" THEN ListResult(400, q.error, <<>>, NoBody)
    ELSE ListResult(200, "", <<>>,
                    ListBody(paginate(q.rows, page_of(args), per_page_of(args), release),
                             page_of(args), per_page_of(args)))

\* the query the page /tasks builds (web_routes.py 28-54): flashed holds the
\* messages flashed on the way
web_tasks_query(args, rows) ==
    LET bad_status == /\ Has(args, "status") /\ Truthy(args["status"])
                      /\ TaskStatus(args["status"]) = "ValueError"
        bad_priority == /\ Has(args, "priority") /\ Truthy(args["priority"])
                        /\ TaskPriority(args["priority"]) = "ValueError"
        q1 == IF Has(args, "status") /\ Truthy(args["status"]) /\ ~bad_status
              THEN filter_by_status(rows, TaskStatus(args["status"])) ELSE rows
        q2 == IF Has(args, "priority") /\ Truthy(args["priority"]) /\ ~bad_priority
              THEN filter_by_priority(q1, TaskPriority(args["priority"])) ELSE q1
        user_id == args_get_user_id(args)
    IN [flashed |-> (IF bad_status THEN <<"Invalid status filter">> ELSE <<>>)
                      \o (IF bad_priority THEN <<"Invalid priority filter">> ELSE <<>>),
        rows |-> IF user_id # {} /\ user_id # {0}
                 THEN filter_by_user_id(q2, CHOOSE u \in user_id : TRUE) ELSE q2]

\* the page /tasks: ten tasks a page, rendered with the flashed messages
web_tasks(args, rows, release) ==
    LET q == web_tasks_query(args, rows) IN
    ListResult(200, "", q.flashed,
               ListBody(paginate(q.rows, page_of(args), 10, release), page_of(args), 10))

(* ----------------------------- requests ------------------------------- *)

\* the last request and its answer; before is the row the handler loaded
\* (the empty set when it found none, or loads none)
Response(op, id, data, before, r) ==
    [op |-> op, id |-> id, data |-> data, before |-> before,
     code |-> r.code, error |-> r.error, details |-> r.details,
     body |-> IF "body" \in DOMAIN r THEN r.body ELSE NoBody]

Row(table, id) == IF id \in DOMAIN table THEN {table[id]} ELSE {}

\* payloads: every choice of the optional keys over the given values
Opt(k, V) == {EmptyDict} \cup {k :> v : v \in V}
Merge(A, B) == {a @@ b : a \in A, b \in B}

\* every choice of username and email, with a password; and four payloads
\* without one: no payload at all, no password, is_active alone, a null
\* username alone
UserPayloads ==
    Merge(Merge(Opt("username", {S_empty, S_ab, S_ali, S_bob}),
                Opt("email", {E_bad, E_a, E_c})),
          {"password" :> S_pw})
    \cup {EmptyDict, ("username" :> S_ali) @@ ("email" :> E_a), "is_active" :> FALSE,
          "username" :> None}

\* the users the task requests run against
SeedUserPayloads ==
    {("username" :> S_ali) @@ ("email" :> E_a) @@ ("password" :> S_pw)}

\* the keys a create needs
NewTask == ("title" :> S_t) @@ ("user_id" :> 1)

\* every choice of title and status (an update), every status with the keys a
\* create needs, creates that lack a title, and each priority and due_date
\* alone and with the keys a create needs
TaskPayloads ==
    Merge(Opt("title", {None, S_empty, S_t}),
          Opt("status", {S_empty, S_bogus, S_pending, S_in_progress, S_completed}))
    \cup Merge({NewTask},
               Opt("status", {S_empty, S_bogus, S_pending, S_in_progress, S_completed}))
    \cup {"user_id" :> 1, ("title" :> S_empty) @@ ("user_id" :> 1),
          ("title" :> S_t) @@ ("user_id" :> 2)}
    \cup Merge({EmptyDict, NewTask},
               {"priority" :> S_bogus, "priority" :> S_empty, "priority" :> S_high,
                "due_date" :> D_bad, "due_date" :> D_iso, "due_date" :> S_empty,
                ("status" :> S_completed) @@ ("due_date" :> D_bad)})

QueryArgs == {EmptyDict, "status" :> S_bogus, "priority" :> S_bogus, "status" :> S_pending}

UserIds == 1..MaxUsers
Slots == 1..MaxInflight

\* a slot with no request in flight
Idle == [op |-> "idle", id |-> 0, data |-> EmptyDict, loaded |-> {}, session |-> {}]
TaskIds == 1..MaxTasks

CreateUser(data) ==
    LET r == create_user(data) IN
    /\ r.code = 201 => next_user_id <= MaxUsers
    /\ users' = r.users
    /\ next_user_id' = IF r.code = 201 THEN next_user_id + 1 ELSE next_user_id
    /\ resp' = Response("create_user", 0, data, {}, r)
    /\ UNCHANGED <<tasks, next_task_id, now, inflight>>

UpdateUser(user_id, data) ==
    LET r == update_user(user_id, data) IN
    /\ users' = r.users
    /\ resp' = Response("update_user", user_id, data, Row(users, user_id), r)
    /\ UNCHANGED <<tasks, next_user_id, next_task_id, now, inflight>>

DeleteUser(user_id) ==
    LET r == delete_user(user_id) IN
    /\ users' = r.users
    /\ tasks' = r.tasks
    /\ resp' = Response("delete_user", user_id, EmptyDict, Row(users, user_id), r)
    /\ UNCHANGED <<next_user_id, next_task_id, now, inflight>>

\* create_task while the store holds fewer than cap tasks
CreateTaskUpTo(data, cap) ==
    LET r == create_task(data) IN
    /\ r.code = 201 => next_task_id <= cap
    /\ tasks' = r.tasks
    /\ next_task_id' = IF r.code = 201 THEN next_task_id + 1 ELSE next_task_id
    /\ resp' = Response("create_task", 0, data, {}, r)
    /\ UNCHANGED <<users, next_user_id, now, inflight>>

CreateTask(data) == CreateTaskUpTo(data, MaxTasks)

UpdateTask(task_id, data) ==
    LET r == update_task(task_id, data) IN
    /\ tasks' = r.tasks
    /\ resp' = Response("update_task", task_id, data, Row(tasks, task_id), r)
    /\ UNCHANGED <<users, next_user_id, next_task_id, now, inflight>>

DeleteTask(task_id) ==
    LET r == delete_task(task_id) IN
    /\ tasks' = r.tasks
    /\ resp' = Response("delete_task", task_id, EmptyDict, Row(tasks, task_id), r)
    /\ UNCHANGED <<users, next_user_id, next_task_id, now, inflight>>

GetUserTasks(user_id, args) ==
    /\ \E rows \in TaskRows : \E release \in Releases(args) :
          \E r \in {get_user_tasks(user_id, args, rows, release)} :
             resp' = Response("get_user_tasks", user_id, args, Row(users, user_id), r)
    /\ UNCHANGED <<users, tasks, next_user_id, next_task_id, now, inflight>>

GetUsers(args) ==
    /\ \E rows \in UserRows : \E release \in Releases(args) :
          \E r \in {get_users(args, rows, release)} :
             resp' = Response("get_users", 0, args, {}, r)
    /\ UNCHANGED <<users, tasks, next_user_id, next_task_id, now, inflight>>

GetTasks(args) ==
    /\ \E rows \in TaskRows : \E release \in Releases(args) :
          \E r \in {get_tasks(args, rows, release)} :
             resp' = Response("get_tasks", 0, args, {}, r)
    /\ UNCHANGED <<users, tasks, next_user_id, next_task_id, now, inflight>>

WebTasks(args) ==
    /\ \E rows \in TaskRows : \E release \in Releases(args) :
          \E r \in {web_tasks(args, rows, release)} :
             resp' = Response("web_tasks", 0, args, {}, r)
    /\ UNCHANGED <<users, tasks, next_user_id, next_task_id, now, inflight>>

\* time passes between two requests
Tick ==
    /\ now < MaxTime
    /\ now' = now + 1
    /\ resp' = [op |-> "none", id |-> 0, data |-> EmptyDict, before |-> {},
                code |-> 0, error |-> "", details |-> <<>>, body |-> NoBody]
    /\ UNCHANGED <<users, tasks, next_user_id, next_task_id, inflight>>

Init ==
    /\ users = [u \in {} |-> None]
    /\ tasks = [t \in {} |-> None]
    /\ next_user_id = 1
    /\ next_task_id = 1
    /\ now = 0
    /\ resp = [op |-> "none", id |-> 0, data |-> EmptyDict, before |-> {},
               code |-> 0, error |-> "", details |-> <<>>, body |-> NoBody]
    /\ inflight = [s \in Slots |-> Idle]

\* the user requests, over every user payload
NextUsers ==
    \/ \E data \in UserPayloads : CreateUser(data)
    \/ \E user_id \in UserIds : \E data \in UserPayloads : UpdateUser(user_id, data)
    \/ \E user_id \in UserIds : DeleteUser(user_id)

SpecUsers == Init /\ [][NextUsers]_vars

\* the task requests, over every task payload, against the seed users
Next ==
    \/ \E data \in SeedUserPayloads : CreateUser(data)
    \/ \E user_id \in UserIds : DeleteUser(user_id)
    \/ \E data \in TaskPayloads : CreateTask(data)
    \/ \E task_id \in TaskIds : \E data \in TaskPayloads : UpdateTask(task_id, data)
    \/ \E task_id \in TaskIds : DeleteTask(task_id)
    \/ \E user_id \in UserIds : \E args \in QueryArgs : GetUserTasks(user_id, args)
    \/ Tick

Spec == Init /\ [][Next]_vars

\* payloads that set a status: on creation, and each status on update, alone
\* and with another key
StatusPayloads ==
    {NewTask, NewTask @@ ("status" :> S_completed),
     "status" :> S_pending, "status" :> S_in_progress, "status" :> S_completed,
     "status" :> S_bogus, "status" :> S_empty,
     ("title" :> S_empty) @@ ("status" :> S_in_progress),
     ("status" :> S_completed) @@ ("priority" :> S_high),
     ("status" :> S_completed) @@ ("due_date" :> D_bad)}

\* the task requests over the payloads that set a status, as time passes
NextStatus ==
    \/ \E data \in SeedUserPayloads : CreateUser(data)
    \/ \E data \in StatusPayloads : CreateTask(data)
    \/ \E task_id \in TaskIds : \E data \in StatusPayloads : UpdateTask(task_id, data)
    \/ \E task_id \in TaskIds : DeleteTask(task_id)
    \/ Tick

SpecStatus == Init /\ [][NextStatus]_vars

\* payloads that reach each point at which a write handler gives up
FailingUserPayloads ==
    {EmptyDict,
     ("username" :> S_ali) @@ ("email" :> E_a) @@ ("password" :> S_pw),
     ("username" :> S_bob) @@ ("email" :> E_c) @@ ("password" :> S_pw),
     ("username" :> S_ali) @@ ("email" :> E_bad) @@ ("password" :> S_pw),
     ("username" :> S_empty) @@ ("email" :> E_c),
     "username" :> S_bob,
     "username" :> None}

FailingTaskPayloads ==
    {EmptyDict, NewTask,
     NewTask @@ ("status" :> S_empty),
     NewTask @@ ("due_date" :> D_bad),
     ("title" :> S_t) @@ ("user_id" :> 2),
     ("title" :> S_empty) @@ ("status" :> S_completed) @@ ("due_date" :> D_bad),
     ("title" :> S_empty) @@ ("status" :> S_completed) @@ ("priority" :> S_empty),
     "title" :> None,
     "status" :> S_bogus,
     "status" :> S_completed}

\* every handler that loads a row by id, and every write, over the payloads
\* that make them give up
NextAll ==
    \/ \E data \in FailingUserPayloads : CreateUser(data)
    \/ \E user_id \in UserIds : \E data \in FailingUserPayloads : UpdateUser(user_id, data)
    \/ \E user_id \in UserIds : DeleteUser(user_id)
    \/ \E data \in FailingTaskPayloads : CreateTask(data)
    \/ \E task_id \in TaskIds : \E data \in FailingTaskPayloads : UpdateTask(task_id, data)
    \/ \E task_id \in TaskIds : DeleteTask(task_id)
    \/ \E user_id \in UserIds : \E args \in QueryArgs : GetUserTasks(user_id, args)

SpecAll == Init /\ [][NextAll]_vars

\* the task lists under their filters: one user, one task at most
FilterTaskPayloads == {NewTask, NewTask @@ ("status" :> S_completed) @@ ("priority" :> S_high)}

FilterArgs ==
    Merge(Opt("status", {S_empty, S_pending, S_bogus}),
          Merge(Opt("priority", {S_high, S_bogus}), Opt("user_id", {<<"1">>, <<"2">>, <<"x">>})))

NextFilter ==
    \/ \E data \in SeedUserPayloads : CreateUser(data)
    \/ \E data \in FilterTaskPayloads : CreateTask(data)
    \/ \E args \in FilterArgs : GetTasks(args)
    \/ \E user_id \in UserIds : \E args \in FilterArgs : GetUserTasks(user_id, args)
    \/ \E args \in FilterArgs : WebTasks(args)

SpecFilter == Init /\ [][NextFilter]_vars

\* the lists page by page: two users, MaxListed tasks of the first
MaxListed == 2

ListUserPayloads ==
    SeedUserPayloads
      \cup {("username" :> S_bob) @@ ("email" :> E_c) @@ ("password" :> S_pw)}

ListTaskPayloads == {NewTask, NewTask @@ ("status" :> S_completed)}

PageArgs ==
    {EmptyDict, "page" :> <<"0">>, "per_page" :> <<"0">>,
     ("per_page" :> <<"1", "0", "1">>) @@ ("status" :> S_completed)}
      \cup Merge({"page" :> <<"2">>, "page" :> <<"3">>}, {"per_page" :> <<"1">>})

\* the id of the tasks' owner, and one of no user
ListUserIds == {1, next_user_id}

NextList ==
    \/ \E data \in ListUserPayloads : CreateUser(data)
    \/ \E data \in ListTaskPayloads : CreateTaskUpTo(data, MaxListed)
    \/ \E args \in PageArgs : GetUsers(args)
    \/ \E args \in PageArgs : GetTasks(args)
    \/ \E user_id \in ListUserIds : \E args \in PageArgs : GetUserTasks(user_id, args)
    \/ Tick

SpecList == Init /\ [][NextList]_vars

(* ----------------------- interleaved requests ------------------------- *)

\* Requests handled by concurrent workers: each runs its lookups against the
\* committed store, and commits in a later step (read committed).

BeginCreateUser(s, data) ==
    LET r == create_user_lookup(data) IN
    /\ inflight[s] = Idle
    /\ IF r.code # 0
       THEN /\ resp' = Response("create_user", 0, data, {}, r)
            /\ UNCHANGED inflight
       ELSE /\ resp' = Response("lookup", 0, data, {}, r)
            /\ inflight' = [inflight EXCEPT ![s] =
                  [op |-> "create_user", id |-> 0, data |-> data,
                   loaded |-> {}, session |-> {}]]
    /\ UNCHANGED <<users, tasks, next_user_id, next_task_id, now>>

CommitCreateUser(s) ==
    LET r == create_user_commit(inflight[s].data) IN
    /\ inflight[s].op = "create_user"
    /\ r.code = 201 => next_user_id <= MaxUsers
    /\ users' = r.users
    /\ next_user_id' = IF r.code = 201 THEN next_user_id + 1 ELSE next_user_id
    /\ resp' = Response("create_user", 0, inflight[s].data, {}, r)
    /\ inflight' = [inflight EXCEPT ![s] = Idle]
    /\ UNCHANGED <<tasks, next_task_id, now>>

BeginUpdateUser(s, user_id, data) ==
    LET r == update_user_lookup(user_id, data) IN
    /\ inflight[s] = Idle
    /\ IF r.code # 0
       THEN /\ resp' = Response("update_user", user_id, data, Row(users, user_id), r)
            /\ UNCHANGED inflight
       ELSE /\ resp' = Response("lookup", user_id, data, Row(users, user_id), r)
            /\ inflight' = [inflight EXCEPT ![s] =
                  [op |-> "update_user", id |-> user_id, data |-> data,
                   loaded |-> {users[user_id]},
                   session |-> {update_user_assign(users[user_id], data)}]]
    /\ UNCHANGED <<users, tasks, next_user_id, next_task_id, now>>

CommitUpdateUser(s) ==
    /\ inflight[s].op = "update_user"
    /\ \E loaded \in inflight[s].loaded : \E session \in inflight[s].session :
          LET user_id == inflight[s].id
              r == IF user_id \in DOMAIN users
                   THEN update_user_commit(user_id,
                            update_user_flush(users[user_id], loaded, session))
                   ELSE Result(500, "Failed to update user", <<>>, users, tasks)
          IN /\ users' = r.users
             /\ resp' = Response("update_user", user_id, inflight[s].data, {loaded}, r)
    /\ inflight' = [inflight EXCEPT ![s] = Idle]
    /\ UNCHANGED <<tasks, next_user_id, next_task_id, now>>

\* requests that pass validation and share a username or an email
RaceUserPayloads ==
    {("username" :> S_ali) @@ ("email" :> E_a) @@ ("password" :> S_pw),
     ("username" :> S_ali) @@ ("email" :> E_c) @@ ("password" :> S_pw),
     ("username" :> S_bob) @@ ("email" :> E_a) @@ ("password" :> S_pw)}

NextRace ==
    \/ \E s \in Slots : \E data \in RaceUserPayloads : BeginCreateUser(s, data)
    \/ \E s \in Slots : CommitCreateUser(s)
    \/ \E s \in Slots : \E user_id \in UserIds : \E data \in RaceUserPayloads :
          BeginUpdateUser(s, user_id, data)
    \/ \E s \in Slots : CommitUpdateUser(s)

SpecRace == Init /\ [][NextRace]_vars

\* create_task in two steps: the owner's lookup, then the INSERT and commit

BeginCreateTask(s, data) ==
    LET r == create_task_lookup(data) IN
    /\ inflight[s] = Idle
    /\ IF r.code # 0
       THEN /\ resp' = Response("create_task", 0, data, {}, r)
            /\ UNCHANGED inflight
       ELSE /\ resp' = Response("lookup", 0, data, {}, r)
            /\ inflight' = [inflight EXCEPT ![s] =
                  [op |-> "create_task", id |-> 0, data |-> data,
                   loaded |-> {}, session |-> {}]]
    /\ UNCHANGED <<users, tasks, next_user_id, next_task_id, now>>

CommitCreateTask(s) ==
    LET r == create_task_commit(inflight[s].data) IN
    /\ inflight[s].op = "create_task"
    /\ r.code = 201 => next_task_id <= MaxTasks
    /\ tasks' = r.tasks
    /\ next_task_id' = IF r.code = 201 THEN next_task_id + 1 ELSE next_task_id
    /\ resp' = Response("create_task", 0, inflight[s].data, {}, r)
    /\ inflight' = [inflight EXCEPT ![s] = Idle]
    /\ UNCHANGED <<users, next_user_id, now>>

\* delete_user in two steps: get_or_404 loads the user, the commit deletes
\* the row as the store holds it then

BeginDeleteUser(s, user_id) ==
    /\ inflight[s] = Idle
    /\ IF user_id \notin DOMAIN users
       THEN /\ resp' = Response("delete_user", user_id, EmptyDict, {},
                                delete_user(user_id))
            /\ UNCHANGED inflight
       ELSE /\ resp' = Response("lookup", user_id, EmptyDict, {users[user_id]},
                                Result(0, "", <<>>, users, tasks))
            /\ inflight' = [inflight EXCEPT ![s] =
                  [op |-> "delete_user", id |-> user_id, data |-> EmptyDict,
                   loaded |-> {users[user_id]}, session |-> {}]]
    /\ UNCHANGED <<users, tasks, next_user_id, next_task_id, now>>

CommitDeleteUser(s) ==
    LET r == delete_user(inflight[s].id) IN
    /\ inflight[s].op = "delete_user"
    /\ users' = r.users
    /\ tasks' = r.tasks
    /\ resp' = Response("delete_user", inflight[s].id, EmptyDict, inflight[s].loaded, r)
    /\ inflight' = [inflight EXCEPT ![s] = Idle]
    /\ UNCHANGED <<next_user_id, next_task_id, now>>

\* tasks for either user, with and without a status
OwnerTaskPayloads ==
    {("title" :> S_t) @@ ("user_id" :> u) : u \in UserIds}
      \cup {NewTask @@ ("status" :> S_completed)}

NextOwner ==
    \/ \E data \in SeedUserPayloads : CreateUser(data)
    \/ \E s \in Slots : \E data \in OwnerTaskPayloads : BeginCreateTask(s, data)
    \/ \E s \in Slots : CommitCreateTask(s)
    \/ \E s \in Slots : \E user_id \in UserIds : BeginDeleteUser(s, user_id)
    \/ \E s \in Slots : CommitDeleteUser(s)

SpecOwner == Init /\ [][NextOwner]_vars

\* update_task in two steps: the handler's assignments on the row it loads,
\* then the commit

BeginUpdateTask(s, task_id, data) ==
    LET r == update_task_begin(task_id, data) IN
    /\ inflight[s] = Idle
    /\ IF r.code # 0
       THEN /\ resp' = Response("update_task", task_id, data, Row(tasks, task_id), r)
            /\ UNCHANGED inflight
       ELSE /\ resp' = Response("lookup", task_id, data, Row(tasks, task_id), r)
            /\ inflight' = [inflight EXCEPT ![s] =
                  [op |-> "update_task", id |-> task_id, data |-> data,
                   loaded |-> {tasks[task_id]},
                   session |-> {update_task_assign(tasks[task_id], data).task}]]
    /\ UNCHANGED <<users, tasks, next_user_id, next_task_id, now>>

CommitUpdateTask(s) ==
    /\ inflight[s].op = "update_task"
    /\ \E loaded \in inflight[s].loaded : \E session \in inflight[s].session :
          LET task_id == inflight[s].id
              r == IF task_id \in DOMAIN tasks
                   THEN update_task_commit(task_id,
                            update_task_flush(tasks[task_id], loaded, session))
                   ELSE Result(500, "Failed to update task", <<>>, users, tasks)
          IN /\ tasks' = r.tasks
             /\ resp' = Response("update_task", task_id, inflight[s].data, {loaded}, r)
    /\ inflight' = [inflight EXCEPT ![s] = Idle]
    /\ UNCHANGED <<users, next_user_id, next_task_id, now>>

\* updates of the status alone, on a task created pending
RaceTaskPayloads ==
    {"status" :> S_pending, "status" :> S_in_progress, "status" :> S_completed}

NextTaskRace ==
    \/ \E data \in SeedUserPayloads : CreateUser(data)
    \/ CreateTask(NewTask)
    \/ \E s \in Slots : \E task_id \in TaskIds : \E data \in RaceTaskPayloads :
          BeginUpdateTask(s, task_id, data)
    \/ \E s \in Slots : CommitUpdateTask(s)
    \/ \E task_id \in TaskIds : DeleteTask(task_id)
    \/ Tick

SpecTaskRace == Init /\ [][NextTaskRace]_vars

(* ------------------------- claims on users ---------------------------- *)

\* the payload's username or email is that of a stored user
Duplicate(data) ==
    \E u \in DOMAIN users :
        \/ Has(data, "username") /\ users[u].username = data["username"]
        \/ Has(data, "email") /\ users[u].email = data["email"]

\* what create_user requires of a payload
ValidNewUser(data) ==
    data # EmptyDict /\ validate_user_data(data, <<"username", "email", "password">>) = <<>>

\* C3 as stated: a create_user whose username or email is that of a stored
\* user is answered 409 and adds no user, whatever its other fields are.
C3_DuplicateIsConflict ==
    [][(resp'.op = "create_user" /\ Duplicate(resp'.data))
        => (resp'.code = 409 /\ users' = users)]_vars

\* C3 amended: a create_user whose username or email is that of a stored
\* user adds no user; it is answered 409 when the payload passes validation
\* and 400 when it does not.
C3_ValidDuplicateIsConflict ==
    [][(resp'.op = "create_user" /\ Duplicate(resp'.data))
        => /\ users' = users
           /\ resp'.code = IF ValidNewUser(resp'.data) THEN 409 ELSE 400]_vars

\* C3 witness: a create_user with the email of a stored user and a username
\* of its own was answered 409
C3_Witness ==
    /\ resp.op = "create_user" /\ resp.code = 409
    /\ \E u \in DOMAIN users :
          users[u].email = resp.data["email"] /\ users[u].username # resp.data["username"]
    /\ \A u \in DOMAIN users : users[u].username # resp.data["username"]

\* every username and email the payload supplies is the row's own
OwnValues(user_id, data) ==
    /\ Has(data, "username") \/ Has(data, "email")
    /\ Has(data, "username") => data["username"] = users[user_id].username
    /\ Has(data, "email") => data["email"] = users[user_id].email

\* a username or email the payload supplies is that of another stored user
OthersValue(user_id, data) ==
    \E v \in DOMAIN users \ {user_id} :
        \/ Has(data, "username") /\ users[v].username = data["username"]
        \/ Has(data, "email") /\ users[v].email = data["email"]

\* C5: update_user answers 409 only when a supplied username or email is that
\* of a different stored user, and never when the supplied username and
\* email are the user's own.
C5_ConflictOnlyWithOther ==
    [][resp'.op = "update_user"
        => /\ resp'.code = 409 => OthersValue(resp'.id, resp'.data)
           /\ (resp'.id \in DOMAIN users /\ OwnValues(resp'.id, resp'.data))
                 => resp'.code # 409]_vars

\* C5 witness: with two users stored, an update_user supplying the user's own
\* username and email was answered 200
C5_Witness ==
    /\ resp.op = "update_user" /\ resp.code = 200
    /\ Cardinality(DOMAIN users) = 2
    /\ Has(resp.data, "username") /\ Has(resp.data, "email")
    /\ \E row \in resp.before :
          row.username = resp.data["username"] /\ row.email = resp.data["email"]

\* C7: every stored user has a username of at least 3 characters.
C7_UsernameMinLength ==
    \A u \in DOMAIN users : Len(users[u].username) >= 3

(* ------------------------- claims on tasks ---------------------------- *)

\* C1: every stored task has completed_at non-null if and only if its status
\* is completed.
C1_CompletedAtIffCompleted ==
    \A t \in DOMAIN tasks : (tasks[t].completed_at # {}) <=> (tasks[t].status = "COMPLETED")

\* the rule of the specification, on (old status, new status, old completed_at)
ReferenceCompletedAt(old_status, new_status, completed_at, utcnow) ==
    CASE old_status # "COMPLETED" /\ new_status = "COMPLETED" -> {utcnow}
      [] old_status = "COMPLETED" /\ new_status # "COMPLETED" -> {}
      [] OTHER -> completed_at

\* C2: after a successful update_task whose payload carries a status, the
\* task's status is the payload's and its completed_at is the reference rule
\* applied once to the old status, the new status and the old completed_at.
C2_TransitionRule ==
    (resp.op = "update_task" /\ resp.code = 200 /\ Has(resp.data, "status"))
        => \A row \in resp.before :
              /\ tasks[resp.id].status = TaskStatus(resp.data["status"])
              /\ tasks[resp.id].completed_at =
                    ReferenceCompletedAt(row.status, tasks[resp.id].status,
                                         row.completed_at, now)

\* C2 witness: a task completed at an earlier time was updated to completed
\* again and kept its completed_at
C2_Witness ==
    /\ resp.op = "update_task" /\ resp.code = 200
    /\ Has(resp.data, "status") /\ resp.data["status"] = S_completed
    /\ \E row \in resp.before :
          /\ row.status = "COMPLETED" /\ row.completed_at # {} /\ row.completed_at # {now}
          /\ tasks[resp.id].completed_at = row.completed_at

\* C8: every stored task has a non-empty title.
C8_TitleNonEmpty ==
    \A t \in DOMAIN tasks : tasks[t].title # None /\ Len(tasks[t].title) >= 1

\* the payload carries a status or a priority that is no value of its
\* enumeration
BadEnum(data) ==
    \/ Has(data, "status") /\ TaskStatus(data["status"]) = "ValueError"
    \/ Has(data, "priority") /\ TaskPriority(data["priority"]) = "ValueError"

\* the details name the values of an enumeration
ListsValidValues(details) ==
    \E i \in 1..Len(details) :
        \/ details[i] = <<"Status must be one of:">> \o valid_statuses
        \/ details[i] = <<"Priority must be one of:">> \o valid_priorities

\* C9: a create_task (for a stored user) or an update_task (of a stored task)
\* whose payload carries a status or priority outside its enumeration is
\* answered 400 with details listing the valid values, and changes no task.
C9_BadEnumIsValidationError ==
    [][(/\ BadEnum(resp'.data)
        /\ \/ /\ resp'.op = "create_task"
              /\ Has(resp'.data, "user_id") /\ resp'.data["user_id"] \in DOMAIN users
           \/ resp'.op = "update_task" /\ resp'.id \in DOMAIN tasks)
        => /\ resp'.code = 400
           /\ ListsValidValues(resp'.details)
           /\ tasks' = tasks]_vars

(* --------------------- claims on every handler ------------------------ *)

\* C6: update_user, delete_user, update_task, delete_task and get_user_tasks
\* called with an id that is not in the store answer 404 and leave the store
\* as it was.
C6_MissingIdIsNotFound ==
    [][(\/ resp'.op \in {"update_user", "delete_user", "get_user_tasks"}
           /\ resp'.id \notin DOMAIN users
        \/ resp'.op \in {"update_task", "delete_task"} /\ resp'.id \notin DOMAIN tasks)
        => (resp'.code = 404 /\ users' = users /\ tasks' = tasks)]_vars

WriteOps ==
    {"create_user", "update_user", "delete_user", "create_task", "update_task", "delete_task"}

\* C10: a create, update or delete request answered 400, 404, 409 or 500
\* leaves every stored user and task as it was before the request.
C10_FailureLeavesStore ==
    [][(resp'.op \in WriteOps /\ resp'.code \in {400, 404, 409, 500})
        => (users' = users /\ tasks' = tasks)]_vars

\* C10 witness: an update_user that had assigned a new username was answered
\* 409 for its email, and the stored row is the row it had loaded
C10_Witness ==
    /\ resp.op = "update_user" /\ resp.code = 409 /\ resp.error = "Email already exists"
    /\ Has(resp.data, "username")
    /\ \E row \in resp.before :
          row.username # resp.data["username"] /\ users[resp.id] = row

(* ------------------ claims on interleaved requests -------------------- *)

\* the username or email of the request in flight is that of a stored user
\* other than the one it updates
Collides(req) ==
    \E u \in DOMAIN users \ {req.id} :
        \/ Has(req.data, "username") /\ users[u].username = req.data["username"]
        \/ Has(req.data, "email") /\ users[u].email = req.data["email"]

\* C4: the store never holds two users with one username or email, and a
\* create_user or update_user that passed its lookups and finds its username
\* or email taken when it commits is answered 409.
C4_LostRaceIsConflict ==
    [][/\ ~users_integrity_error(users')
       /\ \A s \in Slots :
             (inflight[s] # Idle /\ inflight'[s] = Idle /\ Collides(inflight[s]))
                => resp'.code = 409]_vars

\* C11: every stored task's user_id is the id of a stored user, whatever the
\* order in which create_task and delete_user look up and commit.
C11_TaskOwnerExists ==
    \A t \in DOMAIN tasks : tasks[t].user_id \in DOMAIN users

\* a create_task that found its owner, and whose owner was deleted before it
\* committed: it stored nothing
C11_Witness ==
    /\ resp.op = "create_task"
    /\ resp.code = 500
    /\ Has(resp.data, "user_id")
    /\ resp.data["user_id"] \notin DOMAIN users
    /\ next_user_id > resp.data["user_id"]
    /\ tasks = [t \in {} |-> None]

(* --------------------------- claims on lists -------------------------- *)

\* C12: the page /tasks selects the tasks the API's list_tasks selects for
\* the same store and the same status, priority and user_id values, and it
\* answers with an error where list_tasks does.
C12_WebFiltersAsApi ==
    resp.op = "web_tasks" =>
        \A rows \in TaskRows :
            LET api == get_tasks_query(resp.data, rows) IN
            IF api.error # "" THEN resp.code >= 400
            ELSE resp.code = 200 /\ web_tasks_query(resp.data, rows).rows = api.rows

\* a non-empty status or priority value outside its enumeration
BadFilter(args) ==
    \/ /\ Has(args, "status") /\ args["status"] # <<>>
       /\ TaskStatus(args["status"]) = "ValueError"
    \/ /\ Has(args, "priority") /\ args["priority"] # <<>>
       /\ TaskPriority(args["priority"]) = "ValueError"

\* C13: list_tasks and list_tasks_for_user answer a status or priority value
\* outside its enumeration with 400 (a user that does not exist being
\* answered with another error of the 400 class at most), never with 200
\* nor with a server error.
C13_BadFilterIsClientError ==
    (resp.op \in {"get_tasks", "get_user_tasks"} /\ BadFilter(resp.data)) =>
        IF resp.op = "get_user_tasks" /\ resp.before = {}
        THEN resp.code \in 400..499
        ELSE resp.code = 400

ListOps == {"get_users", "get_tasks", "get_user_tasks"}

\* the tasks a list request asks for
Matching(op, id, args) ==
    {t \in DOMAIN tasks :
        /\ op = "get_user_tasks" => tasks[t].user_id = id
        /\ (op = "get_tasks" /\ args_get_user_id(args) \notin {{}, {0}})
              => tasks[t].user_id \in args_get_user_id(args)
        /\ (Has(args, "status") /\ args["status"] # <<>>)
              => tasks[t].status = TaskStatus(args["status"])
        /\ (Has(args, "priority") /\ args["priority"] # <<>>)
              => tasks[t].priority = TaskPriority(args["priority"])}

\* the entities a list request asks for, in each order the store may return
\* them: tasks newest first
MatchingRows(op, id, args) ==
    IF op = "get_users" THEN UserRows
    ELSE {SelectSeq(rows, LAMBDA t : t \in Matching(op, id, args)) : rows \in TaskRows}

\* positions (page - 1) * per_page .. page * per_page - 1 of rows, counted
\* from 0
Positions(rows, page, per_page) ==
    LET lo == (page - 1) * per_page
        hi == page * per_page - 1
    IN SelectSeq([n \in 1..Len(rows) |-> IF lo <= n - 1 /\ n - 1 <= hi THEN {rows[n]} ELSE {}],
                 LAMBDA x : x # {})

\* the answer is the requested page, with its pagination record
PageAnswered ==
    /\ resp.code = 200
    /\ resp.body.page = args_get_int(resp.data, "page", 1)
    /\ resp.body.per_page <= 100
    /\ resp.body.per_page > 0
    /\ \E rows \in MatchingRows(resp.op, resp.id, resp.data) :
          /\ resp.body.total = Len(rows)
          /\ resp.body.pages * resp.body.per_page >= resp.body.total
          /\ (resp.body.pages - 1) * resp.body.per_page < resp.body.total
          /\ resp.body.pages >= 0
          /\ [n \in 1..Len(resp.body.items) |-> {resp.body.items[n]}]
                = Positions(rows, resp.body.page, resp.body.per_page)

\* C14 as stated: every list request, whatever its page and per_page, is
\* answered 200 with the page it asks for.
C14_EveryPageAnswered == resp.op \in ListOps => PageAnswered

\* C14: a list request for a page >= 1 of per_page >= 1 entities (a missing
\* or non-numeric value being the default), with valid filter values and, for
\* list_tasks_for_user, an existing user, is answered 200 with per_page at
\* most 100, total the number of matching entities, pages = ceil(total /
\* per_page) and the entities at positions (page - 1) * per_page .. page *
\* per_page - 1 of the matching ones, tasks newest first.
C14_ValidPageAnswered ==
    (/\ resp.op \in ListOps
     /\ args_get_int(resp.data, "page", 1) >= 1
     /\ args_get_int(resp.data, "per_page", 10) >= 1
     /\ ~BadFilter(resp.data)
     /\ resp.op = "get_user_tasks" => resp.before # {})
        => PageAnswered

\* a page beyond the last of a non-empty list: no item, the same total
C14_Witness ==
    /\ resp.op = "get_tasks"
    /\ resp.code = 200
    /\ resp.body.total = MaxListed
    /\ resp.body.page > resp.body.pages
    /\ resp.body.pages = MaxListed
    /\ resp.body.items = <<>>

\* C15: once the update_task requests in flight have all committed, every
\* stored task has a completed_at exactly when its status is completed,
\* however the requests' loads and commits interleaved.
C15_InterleavedUpdatesKeepCompletedAt ==
    (\A s \in Slots : inflight[s] = Idle) =>
        \A t \in DOMAIN tasks :
            tasks[t].status = "COMPLETED" <=> tasks[t].completed_at # {}

====
